---- MODULE Spec2Model ----
(***************************************************************************)
(* remove_and_reindex_episodes.py: deletion of a set of episodes from a    *)
(* LeRobot dataset on disk, renumbering of the surviving episode files,    *)
(* rewrite of the two metadata streams, update of info.json, upload.       *)
(*                                                                         *)
(* A directory is a function from the variable part of a file name (the    *)
(* text between "episode_" and the extension, a sequence of characters)    *)
(* to the identity of the file stored under that name.  The identity of a  *)
(* file is the episode index it was created for, so an overwritten file    *)
(* is a lost identity.                                                     *)
(***************************************************************************)
EXTENDS Integers, Sequences, FiniteSets, TLC

VARIABLES
    pc,                 \* position of the run inside main / remove_and_reindex
    args_backup,        \* --backup
    backup_exists,      \* <root>_backup exists
    episodes_to_remove, \* the local of remove_and_reindex (sorted, deduplicated)
    ep_i,               \* position of the deletion loop in episodes_to_remove
    data,               \* data/chunk-000: stem -> file identity
    videos,             \* camera -> (stem -> file identity)
    all_indices,        \* the sorted list built from the glob
    idx_i,              \* position of the renaming loop in all_indices
    index_map,          \* old index -> new index
    meta,               \* meta file name -> sequence of lines
    meta_i,             \* position of the loop over the two metadata files
    total_episodes,     \* info.json["total_episodes"]
    stdout,             \* the progress lines printed so far
    pre                 \* the dataset as it was when the run started

vars == <<pc, args_backup, backup_exists, episodes_to_remove, ep_i, data, videos,
          all_indices, idx_i, index_map, meta, meta_i, total_episodes, stdout, pre>>

----------------------------------------------------------------------------
(* Bounds of the model *)

MaxIdx == 2
MaxRemove == 2
MaxLines == 2

(* Program constants *)

Width == 6

Cameras == <<"laptop", "phone">>
MetaFiles == <<"episodes.jsonl", "episodes_stats.jsonl">>

Indices == 0..MaxIdx
RemovalValues == -1..MaxIdx

----------------------------------------------------------------------------
(* File names: f"{ep:06d}" and int(...) *)

Digits == <<"0", "1", "2", "3", "4", "5", "6", "7", "8", "9">>

RECURSIVE DecStr(_)
DecStr(n) ==
    IF n < 10 THEN <<Digits[n + 1]>>
    ELSE DecStr(n \div 10) \o <<Digits[(n % 10) + 1]>>

RECURSIVE ZFill(_, _)
ZFill(s, w) == IF Len(s) >= w THEN s ELSE ZFill(<<"0">> \o s, w)

\* f"{ep:06d}": the sign counts in the width
Format06d(ep) ==
    IF ep < 0 THEN <<"-">> \o ZFill(DecStr(-ep), Width - 1)
    ELSE ZFill(DecStr(ep), Width)

DigitVal(c) ==
    CASE c = "0" -> 0 [] c = "1" -> 1 [] c = "2" -> 2 [] c = "3" -> 3 [] c = "4" -> 4
      [] c = "5" -> 5 [] c = "6" -> 6 [] c = "7" -> 7 [] c = "8" -> 8 [] c = "9" -> 9

RECURSIVE DecVal(_, _)
\* the value of the decimal numeral made of the first n characters of s
DecVal(s, n) ==
    IF n = 0 THEN 0 ELSE 10 * DecVal(s, n - 1) + DigitVal(s[n])

\* int(f.name.split("_")[1].split(".")[0])
ParseIndex(stem) ==
    IF stem[1] = "-" THEN 0 - DecVal(Tail(stem), Len(stem) - 1) ELSE DecVal(stem, Len(stem))

----------------------------------------------------------------------------
(* Directories *)

EmptyDir == [n \in {} |-> 0]

Exists(dir, name) == name \in DOMAIN dir

\* Path.unlink()
Unlink(dir, name) == [n \in (DOMAIN dir) \ {name} |-> dir[n]]

\* Path.rename() where the target is replaced silently (POSIX)
Rename(dir, src, dst) ==
    [n \in ((DOMAIN dir) \ {src}) \cup {dst} |-> IF n = dst THEN dir[src] ELSE dir[n]]

\* the files of a dataset recorded for the episodes S
DirOf(S) == [n \in {Format06d(i) : i \in S} |-> ParseIndex(n)]

Range(f) == {f[x] : x \in DOMAIN f}

----------------------------------------------------------------------------
(* Lists *)

RECURSIVE SortedSeq(_)
\* sorted(S) for a finite set of integers
SortedSeq(S) ==
    IF S = {} THEN <<>>
    ELSE LET m == CHOOSE x \in S : \A y \in S : x <= y
         IN <<m>> \o SortedSeq(S \ {m})

\* sorted(set(episodes_to_remove))
SortedSet(L) == SortedSeq(Range(L))

RECURSIVE SortedDescending(_)
\* the list sorted the wrong way round
SortedDescending(S) ==
    IF S = {} THEN <<>>
    ELSE LET m == CHOOSE x \in S : \A y \in S : x >= y
         IN <<m>> \o SortedDescending(S \ {m})

\* sorted(all_indices)
SortedIndices(S) == SortedSeq(S)

\* the number of all removed indices, whatever idx is
decrement_by_all(removal, idx) == Len(removal)

\* sum(1 for r in episodes_to_remove if r < idx)
decrement(removal, idx) ==
    Cardinality({k \in 1..Len(removal) : removal[k] < idx})

\* idx - decrement
new_idx(removal, idx) == idx - decrement(removal, idx)

----------------------------------------------------------------------------
(* Metadata streams: one line per record *)

\* a line that json.loads accepts and that has the episode_index field
Record(i, rest) == [kind |-> "record", episode_index |-> i, rest |-> rest]

\* a line that is no JSON, or a JSON object without episode_index
Malformed(kind, rest) == [kind |-> kind, episode_index |-> 0, rest |-> rest]

MalformedKinds == {"invalid_json", "no_episode_index"}

\* json.loads(line) raises, or entry["episode_index"] raises
Raises(line) == line.kind \in MalformedKinds

\* one record per episode of the list s, in that order
LinesOf(s) == [k \in 1..Len(s) |-> Record(s[k], k)]

IndexSet(lines) ==
    {lines[k].episode_index : k \in {j \in 1..Len(lines) : lines[j].kind = "record"}}

RECURSIVE SelectLines(_, _)
SelectLines(lines, removed) ==
    IF lines = <<>> THEN <<>>
    ELSE IF Head(lines).episode_index \in removed
         THEN SelectLines(Tail(lines), removed)
         ELSE <<Head(lines)>> \o SelectLines(Tail(lines), removed)

\* the read loop without its "continue": removed records are kept
kept_entries_all(lines, removal) ==
    [k \in 1..Len(lines) |->
        [lines[k] EXCEPT !.episode_index = @ - decrement(removal, @)]]

\* the list "lines" built by the read loop when no line raises
kept_entries(lines, removal) ==
    LET kept == SelectLines(lines, {removal[k] : k \in 1..Len(removal)})
    IN [k \in 1..Len(kept) |->
          [kept[k] EXCEPT !.episode_index = @ - decrement(removal, @)]]

\* the file opened with "a": the entries follow the old content
appended_file(old, entries) == old \o entries

\* the content of the file after open(..., "w") and the write loop
written_file(old, entries) == entries

\* the file opened for writing before it is read: a raise leaves it empty
truncated_file(old) == <<>>

\* the content of the file when the read loop raised
file_after_read_error(old) == old

----------------------------------------------------------------------------
(* Progress lines *)

Said(tag, where, a, b) == [tag |-> tag, where |-> where, src |-> a, dst |-> b]

Say(tag) == Said(tag, "", <<>>, <<>>)

Printed(tag) == \E k \in 1..Len(stdout) : stdout[k].tag = tag

----------------------------------------------------------------------------
(* Initial states *)

SeqsUpTo(S, n) == UNION {[1..k -> S] : k \in 0..n}

\* the lists of at most n episodes, no episode twice
EpisodeLists(S, n) ==
    {s \in SeqsUpTo(S, n) : \A i, j \in 1..Len(s) : i # j => s[i] # s[j]}

\* an episode set with at most one index added or taken away
OffByOne(S) == {S} \cup {S \cup {i} : i \in Indices} \cup {S \ {i} : i \in Indices}

\* a stream with at most one line replaced by a malformed one
Corrupted(lines) ==
    {lines} \cup
    {[lines EXCEPT ![k] = Malformed(kind, @.rest)] :
        k \in 1..Len(lines), kind \in MalformedKinds}

Snapshot(d, v, m, t) == [data |-> d, videos |-> v, meta |-> m, total_episodes |-> t]

\* a well-formed dataset, one camera directory of which may be off by one video
InitFiles ==
    \E S \in SUBSET Indices :
    \E off \in {"laptop", "phone"} :
    \E V \in OffByOne(S) :
        /\ data = DirOf(S)
        /\ videos = [c \in {"laptop", "phone"} |-> IF c = off THEN DirOf(V) ELSE DirOf(S)]
        /\ meta = [f \in {"episodes.jsonl", "episodes_stats.jsonl"} |-> LinesOf(SortedSeq(S))]
        /\ total_episodes = Cardinality(S)

\* a dataset of one record per episode, the records in any order, with at
\* most one malformed line
InitMeta ==
    \E s \in EpisodeLists(Indices, MaxLines) :
    \E f \in {"episodes.jsonl", "episodes_stats.jsonl"} :
    \E bad \in Corrupted(LinesOf(s)) :
        /\ data = DirOf({s[k] : k \in 1..Len(s)})
        /\ videos = [c \in {"laptop", "phone"} |-> data]
        /\ meta = [g \in {"episodes.jsonl", "episodes_stats.jsonl"} |->
                      IF g = f THEN bad ELSE LinesOf(s)]
        /\ total_episodes = Cardinality(DOMAIN data)

Init ==
    /\ pc = "main"
    /\ args_backup \in BOOLEAN
    /\ backup_exists \in (IF args_backup THEN BOOLEAN ELSE {FALSE})
    /\ episodes_to_remove = <<>>
    /\ ep_i = 1
    /\ (InitFiles \/ InitMeta)
    /\ all_indices = <<>>
    /\ idx_i = 1
    /\ index_map = EmptyDir
    /\ meta_i = 1
    /\ stdout = <<>>
    /\ pre = Snapshot(data, videos, meta, total_episodes)

----------------------------------------------------------------------------
(* main, lines 114-116, and backup_dir *)

\* backup_dir without its copytree
backup_dir_no_copy(existed) == existed

\* whether <root>_backup exists when backup_dir returns
backup_dir(existed) == TRUE

main_backup ==
    /\ pc = "main"
    /\ backup_exists' = IF args_backup THEN backup_dir(backup_exists) ELSE backup_exists
    /\ stdout' = IF ~args_backup THEN stdout
                 ELSE IF backup_exists THEN Append(stdout, Say("Backup already exists"))
                 ELSE Append(stdout, Say("Backup created"))
    /\ pc' = "remove_and_reindex"
    /\ UNCHANGED <<args_backup, episodes_to_remove, ep_i, data, videos, all_indices,
                   idx_i, index_map, meta, meta_i, total_episodes, pre>>

----------------------------------------------------------------------------
(* remove_and_reindex, lines 20-28: the call with the list given on the    *)
(* command line                                                            *)

enter_remove_and_reindex ==
    /\ pc = "remove_and_reindex"
    /\ \E L \in SeqsUpTo(RemovalValues, MaxRemove) :
          episodes_to_remove' = SortedSet(L)
    /\ ep_i' = 1
    /\ stdout' = Append(stdout, Say("Removing episodes"))
    /\ pc' = "remove_files"
    /\ UNCHANGED <<args_backup, backup_exists, data, videos, all_indices, idx_i,
                   index_map, meta, meta_i, total_episodes, pre>>

removed_set == Range(episodes_to_remove)

----------------------------------------------------------------------------
(* lines 30-39: one iteration of the deletion loop *)

\* the directory after "if f.exists(): f.unlink()"
unlink_if_exists(dir, name) == IF Exists(dir, name) THEN Unlink(dir, name) ELSE dir

deleted_lines(dir, where, name) ==
    IF Exists(dir, name) THEN <<Said("Deleted", where, name, <<>>)>> ELSE <<>>

remove_files ==
    /\ pc = "remove_files"
    /\ ep_i <= Len(episodes_to_remove)
    /\ LET name == Format06d(episodes_to_remove[ep_i])
       IN /\ data' = unlink_if_exists(data, name)
          /\ videos' = [c \in DOMAIN videos |-> unlink_if_exists(videos[c], name)]
          /\ stdout' = stdout \o deleted_lines(data, "data", name)
                              \o deleted_lines(videos[Cameras[1]], Cameras[1], name)
                              \o deleted_lines(videos[Cameras[2]], Cameras[2], name)
    /\ ep_i' = ep_i + 1
    /\ UNCHANGED <<pc, args_backup, backup_exists, episodes_to_remove, all_indices,
                   idx_i, index_map, meta, meta_i, total_episodes, pre>>

----------------------------------------------------------------------------
(* lines 42-46: the glob of the tabular files, after the deletion loop *)

glob_indices(dir) == {ParseIndex(n) : n \in DOMAIN dir}

after_rename_loop(i, list) == IF i > Len(list) THEN "rewrite_meta" ELSE "rename"

scan ==
    /\ pc = "remove_files"
    /\ ep_i > Len(episodes_to_remove)
    /\ all_indices' = SortedIndices(glob_indices(data))
    /\ index_map' = EmptyDir
    /\ idx_i' = 1
    /\ pc' = after_rename_loop(1, all_indices')
    /\ UNCHANGED <<args_backup, backup_exists, episodes_to_remove, ep_i, data, videos,
                   meta, meta_i, total_episodes, stdout, pre>>

----------------------------------------------------------------------------
(* lines 47-63: one iteration of the renaming loop.  Path.rename onto an   *)
(* existing file replaces it on POSIX and raises FileExistsError on        *)
(* Windows; a missing source raises FileNotFoundError on both.             *)

Platforms == {"posix", "nt"}

rename_raises(dir, src, dst, os) ==
    \/ ~Exists(dir, src)
    \/ (os = "nt" /\ Exists(dir, dst))

\* lines 57-62 from camera k on: the directories, whether a rename raised,
\* and the lines printed
RECURSIVE rename_videos(_, _, _, _, _, _)
rename_videos(vs, out, k, src, dst, os) ==
    IF k > Len(Cameras) THEN [videos |-> vs, raised |-> FALSE, out |-> out]
    ELSE LET c == Cameras[k]
         IN IF ~Exists(vs[c], src)
            THEN rename_videos(vs, out, k + 1, src, dst, os)
            ELSE IF rename_raises(vs[c], src, dst, os)
                 THEN [videos |-> vs, raised |-> TRUE, out |-> out]
                 ELSE rename_videos([vs EXCEPT ![c] = Rename(@, src, dst)],
                                    Append(out, Said("Renamed", c, src, dst)),
                                    k + 1, src, dst, os)

rename_step ==
    /\ pc = "rename"
    /\ idx_i <= Len(all_indices)
    /\ \E os \in Platforms :
       LET idx == all_indices[idx_i]
           new == new_idx(episodes_to_remove, idx)
           src == Format06d(idx)
           dst == Format06d(new)
       IN IF new = idx
          THEN /\ index_map' = [i \in (DOMAIN index_map) \cup {idx} |->
                                  IF i = idx THEN new ELSE index_map[i]]
               /\ idx_i' = idx_i + 1
               /\ pc' = after_rename_loop(idx_i + 1, all_indices)
               /\ UNCHANGED <<data, videos, stdout>>
          ELSE IF rename_raises(data, src, dst, os)
          THEN /\ pc' = "failed"
               /\ UNCHANGED <<data, videos, stdout, index_map, idx_i>>
          ELSE LET v == rename_videos(videos, <<>>, 1, src, dst, os)
               IN /\ data' = Rename(data, src, dst)
                  /\ videos' = v.videos
                  /\ stdout' = stdout \o <<Said("Renamed", "data", src, dst)>> \o v.out
                  /\ IF v.raised
                     THEN /\ pc' = "failed"
                          /\ UNCHANGED <<index_map, idx_i>>
                     ELSE /\ index_map' = [i \in (DOMAIN index_map) \cup {idx} |->
                                             IF i = idx THEN new ELSE index_map[i]]
                          /\ idx_i' = idx_i + 1
                          /\ pc' = after_rename_loop(idx_i + 1, all_indices)
    /\ UNCHANGED <<args_backup, backup_exists, episodes_to_remove, ep_i, all_indices,
                   meta, meta_i, total_episodes, pre>>

----------------------------------------------------------------------------
(* lines 66-81: one iteration of the loop over the two metadata files *)

rewrite_meta ==
    /\ pc = "rewrite_meta"
    /\ LET f == MetaFiles[meta_i]
           lines == meta[f]
       IN IF \E k \in 1..Len(lines) : Raises(lines[k])
          THEN /\ meta' = [meta EXCEPT ![f] = file_after_read_error(lines)]
               /\ pc' = "failed"
               /\ UNCHANGED <<meta_i, stdout>>
          ELSE /\ meta' = [meta EXCEPT ![f] =
                              written_file(lines, kept_entries(lines, episodes_to_remove))]
               /\ stdout' = Append(stdout, Said("Updated", f, <<>>, <<>>))
               /\ meta_i' = meta_i + 1
               /\ pc' = IF meta_i = Len(MetaFiles) THEN "update_info" ELSE "rewrite_meta"
    /\ UNCHANGED <<args_backup, backup_exists, episodes_to_remove, ep_i, data, videos,
                   all_indices, idx_i, index_map, total_episodes, pre>>

----------------------------------------------------------------------------
(* lines 83-89 *)

\* info["total_episodes"] - len(episodes_to_remove)
updated_total(total, removal) == total - Len(removal)

update_info ==
    /\ pc = "update_info"
    /\ total_episodes' = updated_total(total_episodes, episodes_to_remove)
    /\ stdout' = Append(stdout, Say("Updated info.json"))
    /\ pc' = "upload"
    /\ UNCHANGED <<args_backup, backup_exists, episodes_to_remove, ep_i, data, videos,
                   all_indices, idx_i, index_map, meta, meta_i, pre>>

----------------------------------------------------------------------------
(* main, line 118, and upload_to_hub: the registry call succeeds or raises *)

upload_to_hub ==
    /\ pc = "upload"
    /\ \E ok \in BOOLEAN :
          /\ stdout' = IF ok
                       THEN stdout \o <<Say("Creating repo"), Say("Uploading"),
                                        Say("Upload complete!")>>
                       ELSE Append(stdout, Say("Creating repo"))
          /\ pc' = IF ok THEN "done" ELSE "failed"
    /\ UNCHANGED <<args_backup, backup_exists, episodes_to_remove, ep_i, data, videos,
                   all_indices, idx_i, index_map, meta, meta_i, total_episodes, pre>>

----------------------------------------------------------------------------

Next ==
    \/ main_backup
    \/ enter_remove_and_reindex
    \/ remove_files
    \/ scan
    \/ rename_step
    \/ rewrite_meta
    \/ update_info
    \/ upload_to_hub

Spec == Init /\ [][Next]_vars

----------------------------------------------------------------------------
(* State functions used by the properties *)

TabIndices == glob_indices(data)
PreTabIndices == glob_indices(pre.data)

\* remove_and_reindex has been entered: episodes_to_remove is the removal list
Entered == pc \notin {"main", "remove_and_reindex"}

\* the deletion loop and the renaming loop have both run to their end
RenamingDone ==
    /\ pc \notin {"main", "remove_and_reindex", "remove_files", "rename"}
    /\ idx_i > Len(all_indices)

\* remove_and_reindex has returned
Returned == Printed("Updated info.json")

NonNegativeRemoval == \A r \in removed_set : r >= 0

\* the progress lines of the files deleted from, or renamed in, a directory
DeletedIn(where) ==
    {k \in 1..Len(stdout) : stdout[k].tag = "Deleted" /\ stdout[k].where = where}
RenamedIn(where) ==
    {k \in 1..Len(stdout) : stdout[k].tag = "Renamed" /\ stdout[k].where = where}

\* the episodes of which the run deleted a file
EpisodesDeleted ==
    {ParseIndex(stdout[k].src) : k \in {j \in 1..Len(stdout) : stdout[j].tag = "Deleted"}}

\* the number of removal indices strictly smaller than i
Smaller(i) == Cardinality({r \in removed_set : r < i})

----------------------------------------------------------------------------
(* C1: after remove_and_reindex with a list of non-negative integers,      *)
(* total_episodes is its value before the run minus the number of distinct *)
(* episodes actually removed from disk; entries whose episode is absent do *)
(* not decrease the counter.                                               *)
C1_CounterCountsRemovedEpisodes ==
    (Returned /\ NonNegativeRemoval) =>
        total_episodes = pre.total_episodes - Cardinality(EpisodesDeleted)

(* C2: if the tabular files were exactly 0..total_episodes-1 before the    *)
(* run, then after it they are exactly 0..t-1 for the total_episodes t     *)
(* written to info.json.  Stated for the removal lists of non-negative     *)
(* integers, which are among the lists of the claim.                       *)
C2_FilesDenseUpToTotal ==
    (Returned /\ NonNegativeRemoval /\ PreTabIndices = 0..(pre.total_episodes - 1)) =>
        TabIndices = 0..(total_episodes - 1)

(* C3: starting from tabular files 0..M-1, after the deletion and the      *)
(* renaming with a list of non-negative integers, the tabular files are    *)
(* exactly 0..N-1, N being M minus the number of tabular files deleted.    *)
C3_IndexDensity ==
    LET M == Cardinality(DOMAIN pre.data)
        N == M - Cardinality(DeletedIn("data"))
    IN (RenamingDone /\ NonNegativeRemoval /\ PreTabIndices = 0..(M - 1)) =>
          /\ TabIndices = 0..(N - 1)
          /\ Cardinality(DOMAIN data) = N

\* a file deleted, a file renamed, and an index of the list absent from disk
C3_Witness ==
    /\ RenamingDone
    /\ NonNegativeRemoval
    /\ PreTabIndices = 0..(Cardinality(DOMAIN pre.data) - 1)
    /\ Cardinality(DOMAIN pre.data) >= 2
    /\ DeletedIn("data") # {}
    /\ RenamedIn("data") # {}
    /\ \E r \in removed_set : r \notin PreTabIndices

(* C4: if the episode_index values of episodes.jsonl were the indices of   *)
(* the tabular files before the run, they are again after it.              *)
C4_MetadataMatchesFiles ==
    (Returned /\ IndexSet(pre.meta["episodes.jsonl"]) = PreTabIndices) =>
        IndexSet(meta["episodes.jsonl"]) = TabIndices

C4_Witness ==
    /\ Returned
    /\ IndexSet(pre.meta["episodes.jsonl"]) = PreTabIndices
    /\ DeletedIn("data") # {}
    /\ RenamedIn("data") # {}
    /\ Cardinality(TabIndices) >= 2

(* C5: with a removal list all of whose indices are absent from disk, no   *)
(* file is deleted and every episode keeps its index, in its file names    *)
(* and in its metadata records.  Stated for the removal lists of           *)
(* non-negative integers, which are among the lists of the claim.          *)
AllAbsent ==
    \A r \in removed_set :
        /\ ~Exists(pre.data, Format06d(r))
        /\ \A c \in DOMAIN pre.videos : ~Exists(pre.videos[c], Format06d(r))

C5_AbsentIndicesChangeNothing ==
    (Entered /\ NonNegativeRemoval /\ AllAbsent) =>
        /\ data = pre.data
        /\ videos = pre.videos
        /\ meta = pre.meta
        /\ DeletedIn("data") = {}

(* C6: the tabular renames are applied in increasing order of the old      *)
(* index, no two surviving indices get the same new index, the destination *)
(* of a rename is free when the rename happens, and no tabular file is     *)
(* overwritten.                                                            *)
C6_TabularRenamesNeverCollide ==
    /\ \A i, j \in 1..Len(all_indices) : i < j => all_indices[i] < all_indices[j]
    /\ \A i, j \in Range(all_indices) :
          i # j => new_idx(episodes_to_remove, i) # new_idx(episodes_to_remove, j)
    /\ (pc = "rename" /\ idx_i <= Len(all_indices)) =>
          LET idx == all_indices[idx_i]
              new == new_idx(episodes_to_remove, idx)
          IN /\ Exists(data, Format06d(idx))
             /\ new # idx => ~Exists(data, Format06d(new))
    /\ (Entered /\ pc # "remove_files") =>
          /\ Range(data) = PreTabIndices \ removed_set
          /\ Cardinality(DOMAIN data) = Cardinality(PreTabIndices \ removed_set)

\* a rename is about to take the name an earlier rename has vacated
C6_Witness ==
    /\ pc = "rename"
    /\ idx_i <= Len(all_indices)
    /\ LET idx == all_indices[idx_i]
           new == new_idx(episodes_to_remove, idx)
       IN /\ new # idx
          /\ new \in DOMAIN index_map
          /\ index_map[new] # new

(* C7: each rewritten stream holds exactly the records whose original      *)
(* episode_index is not in the removal set, in their original order, every *)
(* other field unchanged, episode_index lowered by the number of removal   *)
(* indices strictly smaller; nothing of the old content remains.           *)
Rewritten(f) ==
    \E k \in 1..Len(stdout) : stdout[k].tag = "Updated" /\ stdout[k].where = f

KeptPositions(old) == {k \in 1..Len(old) : old[k].episode_index \notin removed_set}

\* the position in old of the j-th kept record
NthKept(old, j) ==
    CHOOSE k \in KeptPositions(old) :
        Cardinality({m \in KeptPositions(old) : m < k}) = j - 1

C7_MetadataRewrite ==
    \A f \in DOMAIN meta :
        Rewritten(f) =>
            LET old == pre.meta[f]
                new == meta[f]
            IN /\ Len(new) = Cardinality(KeptPositions(old))
               /\ \A j \in 1..Len(new) :
                     LET o == old[NthKept(old, j)]
                     IN /\ new[j].rest = o.rest
                        /\ new[j].kind = o.kind
                        /\ new[j].episode_index = o.episode_index - Smaller(o.episode_index)

\* both streams rewritten: a record dropped, a later record renumbered, and
\* the records not in increasing order of their index
C7_Witness ==
    /\ \A f \in DOMAIN meta : Rewritten(f)
    /\ LET old == pre.meta["episodes_stats.jsonl"]
           new == meta["episodes_stats.jsonl"]
       IN /\ Len(old) >= 2
          /\ Len(new) >= 1
          /\ Len(new) < Len(old)
          /\ \E j \in 1..Len(new) : new[j].episode_index # old[NthKept(old, j)].episode_index
          /\ \E i, j \in 1..Len(old) : i < j /\ old[i].episode_index > old[j].episode_index

(* C8: the backup, when asked for, is complete before the first deletion;  *)
(* deletions precede renames, renames precede the rewrite of the two       *)
(* streams, the total_episodes update follows both rewrites, the upload    *)
(* starts only after total_episodes is written and never after a failure.  *)
Rank(line) ==
    CASE line.tag \in {"Backup created", "Backup already exists"} -> 0
      [] line.tag = "Removing episodes" -> 1
      [] line.tag = "Deleted" -> 2
      [] line.tag = "Renamed" -> 3
      [] line.tag = "Updated" /\ line.where = "episodes.jsonl" -> 4
      [] line.tag = "Updated" /\ line.where = "episodes_stats.jsonl" -> 5
      [] line.tag = "Updated info.json" -> 6
      [] OTHER -> 7

UploadStarted == Printed("Creating repo")

C8_StepOrdering ==
    /\ \A i \in 1..(Len(stdout) - 1) : Rank(stdout[i]) <= Rank(stdout[i + 1])
    /\ (args_backup /\ pc # "main") =>
          /\ backup_exists
          /\ Rank(stdout[1]) = 0
    /\ Returned =>
          /\ \A f \in DOMAIN meta : Rewritten(f)
          /\ total_episodes = pre.total_episodes - Len(episodes_to_remove)
    /\ UploadStarted => (Returned /\ pc \in {"done", "failed"})
    /\ pc \in {"upload", "done"} => Returned
    /\ (pc = "failed" /\ ~Returned) => ~UploadStarted

C8_Witness ==
    /\ pc = "done"
    /\ args_backup
    /\ ~Printed("Backup already exists")
    /\ Printed("Deleted")
    /\ Printed("Renamed")

(* C9: with a malformed record in a stream, the run aborts; that stream    *)
(* keeps its complete original content at every moment, total_episodes is  *)
(* unchanged, and the deletions and renames made stay as they are.         *)
HasMalformed(f) == \E k \in 1..Len(pre.meta[f]) : Raises(pre.meta[f][k])

AbortedInMetadata == pc = "failed" /\ RenamingDone /\ ~Returned

C9_MalformedRecordAborts ==
    \A f \in DOMAIN meta :
        HasMalformed(f) =>
            /\ meta[f] = pre.meta[f]
            /\ total_episodes = pre.total_episodes
            /\ pc \notin {"update_info", "upload", "done"}
            /\ ~Rewritten(f)
            /\ AbortedInMetadata =>
                  /\ TabIndices = Range(index_map)
                  /\ Range(data) = PreTabIndices \ removed_set
                  /\ Cardinality(DeletedIn("data")) =
                        Cardinality(PreTabIndices \cap removed_set)

\* the second stream is the malformed one: the first is already rewritten
C9_Witness ==
    /\ AbortedInMetadata
    /\ HasMalformed("episodes_stats.jsonl")
    /\ Rewritten("episodes.jsonl")
    /\ meta["episodes.jsonl"] # pre.meta["episodes.jsonl"]
    /\ DeletedIn("data") # {}
    /\ RenamedIn("data") # {}

(* C10: when a video is renamed its destination does not exist in its      *)
(* camera directory, so every video that is not in the removal set still   *)
(* exists, under some name, after the run.  Stated for the removal lists   *)
(* of non-negative integers, which are among the lists of the claim.       *)
C10_VideoRenamesNeverOverwrite ==
    /\ (pc = "rename" /\ idx_i <= Len(all_indices) /\ NonNegativeRemoval) =>
          LET idx == all_indices[idx_i]
              new == new_idx(episodes_to_remove, idx)
          IN new # idx =>
                \A c \in DOMAIN videos :
                    Exists(videos[c], Format06d(idx)) => ~Exists(videos[c], Format06d(new))
    /\ (Returned /\ NonNegativeRemoval) =>
          \A c \in DOMAIN videos :
              Range(pre.videos[c]) \ removed_set \subseteq Range(videos[c])

====
